---- MODULE Spec2Model ----
(***************************************************************************)
(* Model of the list-backed panels of gojeera (RelatedIssuesWidget and     *)
(* IssueChildWorkItemsWidget), of the action dispatchers of the related    *)
(* panel (delete_link, link_work_items), of the ADF converter              *)
(* (ADFTextAreaWidget._convert_to_markdown) and of the flag flow of the    *)
(* work-item details.                                                      *)
(***************************************************************************)
EXTENDS Bags, FiniteSets, Integers, Sequences, TLC

VARIABLES
    issues,           \* widget id -> the reactive `issues` value (Panel State)
    rows,             \* widget id -> children mounted in the items container
    loading_display,  \* widget id -> loading_container.display
    content_display,  \* widget id -> content_container.display
    issue_key,        \* the related panel's _issue_key
    screen,           \* the modal screen on top of the main screen, if any
    workers,          \* bag of the worker coroutines suspended on an API call
    ev,               \* what the last handler did (calls, notices, render pass)
    cv,               \* the converter: its input, the transform's outcome, its result
    fl                \* the flag flow of the work-item details

vars == <<issues, rows, loading_display, content_display, issue_key, screen,
          workers, ev, cv, fl>>

(***************************************************************************)
(* Bounds of the model.                                                    *)
(***************************************************************************)
MaxLen == 2       \* longest item sequence assigned to a panel
MaxWorkers == 2   \* most worker coroutines in flight at once
MaxText == 2      \* longest text the document transform returns, in tokens

(***************************************************************************)
(* Python values.  None is a value different from every string used as a   *)
(* key, an id, a name or an error; an optional list is a record, so that   *)
(* None and [] are different values (None != [] in Python).                *)
(***************************************************************************)
None == "<None>"
NoneList == [absent |-> TRUE, items |-> <<>>]
List(s) == [absent |-> FALSE, items |-> s]
\* `not items` / `items or []` on an optional list
Falsy(v) == v.items = <<>>
OrEmpty(v) == List(v.items)

RELATED == "related_issues"
SUBTASKS == "issue_subtasks"
Panels == {RELATED, SUBTASKS}

\* RelatedJiraIssue: link id, work-item key, optional priority name
RelatedItems ==
    { [id |-> "L1", key |-> "K-1", priority_name |-> "High"],
      [id |-> "L2", key |-> "K-2", priority_name |-> None] }
\* JiraIssue as the subtasks panel reads it: key and status name
ChildItems ==
    { [key |-> "K-4", status_name |-> "Open"],
      [key |-> "K-5", status_name |-> "Done"] }

ItemsOf(p) == IF p = RELATED THEN RelatedItems ELSE ChildItems

SeqsUpTo(S, n) == UNION { [1..k -> S] : k \in 0..n }
\* every value an assignment can give to `issues`
IssuesValues(p) == {NoneList} \cup { List(s) : s \in SeqsUpTo(ItemsOf(p), MaxLen) }

(***************************************************************************)
(* Row Builder.                                                            *)
(***************************************************************************)
\* str.lower() on the priority names of the model
Lower(s) == IF s = "High" THEN "high" ELSE s

\* RELATED_WORK_ITEMS_PRIORITY_BASED_STYLING.get(name, {}).get('collapsible_class')
StyleClass(name) == IF name = "high" THEN "priority-high" ELSE None

\* lines 240-242: issue.priority_name.lower() is evaluated for every item,
\* also when line 238 found the name falsy; None has no attribute `lower`
RowRaises(issue) == issue.priority_name = None

\* lines 232-245: the collapsible built for one related item whose
\* priority name is a string
RelatedRow(issue) ==
    [ work_item_key |-> issue.key,
      link_id |-> issue.id,
      border_subtitle |-> IF issue.priority_name # ""
                          THEN << issue.priority_name, " priority" >> ELSE None,
      class |-> StyleClass(Lower(issue.priority_name)) ]

\* subtasks.py lines 158-164
ChildRow(issue) ==
    [ work_item_key |-> issue.key,
      border_subtitle |-> issue.status_name ]

BuildRow(p, issue) == IF p = RELATED THEN RelatedRow(issue) ELSE ChildRow(issue)

(***************************************************************************)
(* The reactive attribute and its watcher.                                 *)
(***************************************************************************)
View(p) == [ rows |-> rows[p], loading |-> loading_display[p],
             content |-> content_display[p], raised |-> FALSE, trace |-> <<>> ]

\* the two calls that change the rows container, and the container after each
remove_children_keep(container) == container
remove_children(container) == <<>>
mount_all(container, batch) == container \o batch
ContainerCall(call, container) == [ call |-> call, rows |-> container ]

\* watch_issues: clear, then either force the loaded display (no items) or
\* build every row and mount them in one batch.  An exception while
\* building leaves the container cleared and nothing mounted.
watch_issues_noshow(p, items, view) ==
    IF Falsy(items)
    THEN [view EXCEPT !.rows = <<>>]
    ELSE [view EXCEPT !.rows = [i \in 1..Len(items.items) |->
                                   BuildRow(p, items.items[i])]]
watch_issues_loaded(p, items, view) ==
    LET cleared == remove_children(view.rows)
        first == ContainerCall("remove_children", cleared)
    IN
    IF Falsy(items)
    THEN [view EXCEPT !.rows = cleared, !.loading = FALSE, !.content = TRUE,
                      !.trace = << first >>]
    ELSE IF p = RELATED /\ \E i \in 1..Len(items.items) : RowRaises(items.items[i])
    THEN [view EXCEPT !.rows = cleared, !.raised = TRUE, !.trace = << first >>]
    ELSE LET batch == [i \in 1..Len(items.items) |-> BuildRow(p, items.items[i])]
             mounted == mount_all(cleared, batch)
         IN  [view EXCEPT !.rows = mounted, !.loading = FALSE, !.content = TRUE,
                          !.trace = << first, ContainerCall("mount_all", mounted) >>]
watch_issues(p, items, view) ==
    LET cleared == remove_children(view.rows)
        first == ContainerCall("remove_children", cleared)
    IN
    IF Falsy(items)
    THEN [view EXCEPT !.rows = cleared, !.loading = FALSE, !.content = TRUE,
                      !.trace = << first >>]
    ELSE IF p = RELATED /\ \E i \in 1..Len(items.items) : RowRaises(items.items[i])
    THEN [view EXCEPT !.rows = cleared, !.raised = TRUE, !.trace = << first >>]
    ELSE LET batch == [i \in 1..Len(items.items) |-> BuildRow(p, items.items[i])]
             mounted == mount_all(cleared, batch)
         IN  [view EXCEPT !.rows = mounted,
                          !.trace = << first, ContainerCall("mount_all", mounted) >>]

\* reactive(None) calls the watcher only when the value changes;
\* reactive(None, always_update=True) calls it on every assignment.
ShouldWatch_always(p, old, new) == TRUE
ShouldWatch(p, old, new) == IF p = SUBTASKS THEN TRUE ELSE old # new

\* the effect of `widget.issues = v`: the value is stored, then the watcher runs
ReactiveSet(p, v) ==
    LET fire == ShouldWatch(p, issues[p], v)
        w == IF fire THEN watch_issues(p, v, View(p)) ELSE View(p)
    IN  [ value |-> v, rendered |-> fire, raised |-> w.raised, trace |-> w.trace,
          rows |-> w.rows, loading |-> w.loading, content |-> w.content ]

Apply(p, r) ==
    /\ issues' = [issues EXCEPT ![p] = r.value]
    /\ rows' = [rows EXCEPT ![p] = r.rows]
    /\ loading_display' = [loading_display EXCEPT ![p] = r.loading]
    /\ content_display' = [content_display EXCEPT ![p] = r.content]

\* an APIControllerResponse as the handlers read it: success, error and,
\* for get_issue, whether result and result.issues are there and the
\* related_issues of the first issue
Response(success, error) ==
    [ success |-> success, error |-> error, result |-> FALSE, issues |-> FALSE,
      related_issues |-> NoneList ]
NoResponse == Response(FALSE, None)

\* the record of one handler's run: its argument, the response it was
\* resumed with, whether the watcher ran and whether it ended in an
\* exception, the API calls it made, the notices it emitted and the calls
\* it made on the rows container
Event(op, p, arg, response, rendered, raised, calls, notes) ==
    [ op |-> op, panel |-> p, arg |-> arg, response |-> response,
      rendered |-> rendered, raised |-> raised, calls |-> calls, notes |-> notes,
      trace |-> <<>> ]
\* the event of a handler that assigned `issues`
Assigned(event, r) == [event EXCEPT !.trace = r.trace]

NoEvent == Event("init", None, None, NoResponse, FALSE, FALSE, <<>>, <<>>)

(***************************************************************************)
(* Panel operations.                                                       *)
(***************************************************************************)
\* an assignment to `issues` from outside the panel (load of a work item,
\* reset when the selected work item changes)
SetIssues(p) ==
    /\ \E v \in IssuesValues(p) :
         LET r == ReactiveSet(p, v) IN
         /\ Apply(p, r)
         /\ ev' = Assigned(Event("set_issues", p,
                                 IF v = issues[p] THEN "equal" ELSE "changed",
                                 NoResponse, r.rendered, r.raised, <<>>, <<>>), r)
    /\ UNCHANGED <<issue_key, screen, workers, cv, fl>>

show_loading_indicator_only(p) ==
    /\ loading_display' = [loading_display EXCEPT ![p] = TRUE]
    /\ ev' = Event("show_loading", p, None, NoResponse, FALSE, FALSE, <<>>, <<>>)
    /\ UNCHANGED <<issues, rows, content_display, issue_key, screen, workers, cv, fl>>
show_loading(p) ==
    /\ loading_display' = [loading_display EXCEPT ![p] = TRUE]
    /\ content_display' = [content_display EXCEPT ![p] = FALSE]
    /\ ev' = Event("show_loading", p, None, NoResponse, FALSE, FALSE, <<>>, <<>>)
    /\ UNCHANGED <<issues, rows, issue_key, screen, workers, cv, fl>>

hide_loading(p) ==
    /\ loading_display' = [loading_display EXCEPT ![p] = FALSE]
    /\ content_display' = [content_display EXCEPT ![p] = TRUE]
    /\ ev' = Event("hide_loading", p, None, NoResponse, FALSE, FALSE, <<>>, <<>>)
    /\ UNCHANGED <<issues, rows, issue_key, screen, workers, cv, fl>>

(***************************************************************************)
(* Action dispatchers of the related panel.                                *)
(***************************************************************************)
NOTIFICATIONS_DEFAULT_TITLE == "Related Work Items"
\* the server's failure reasons; response.error may also be None
Errors == {"permission denied", "not found"}
IssueKeys == {"A-1", "B-2"}

\* f'{x}' : None is formatted as the text None
Fmt(x) == IF x = None THEN "None" ELSE x
\* self.notify(text, severity=..., title=...); a text is its sequence of parts
Notice(severity, text) ==
    [ severity |-> severity, title |-> NOTIFICATIONS_DEFAULT_TITLE, text |-> text ]
Call(method, arg) == [ method |-> method, arg |-> arg ]

MainScreen == [ kind |-> "MainScreen", arg |-> None ]
\* a worker suspended at an await: the coroutine, the API method awaited, the
\* row's link id, the issue key a pending get_issue was called with, and the
\* API methods the coroutine has called so far
Worker(coro, awaiting, link_id, key, made) ==
    [ coro |-> coro, awaiting |-> awaiting, link_id |-> link_id, key |-> key,
      made |-> made ]
Suspend(w) == workers (+) SetToBag({w})
Resume(w) == workers (-) SetToBag({w})
Awaiting(coro, api) ==
    { w \in BagToSet(workers) : w.coro = coro /\ w.awaiting = api }

\* what delete_issue_link and link_work_items answer: success, or a failure
\* with its reason (which may be missing)
APIResponses ==
    {Response(TRUE, None)} \cup { Response(FALSE, e) : e \in Errors \cup {None} }
\* `if not response.success` (lines 83 and 185)
Succeeded_always(response) == TRUE
Succeeded(response) == response.success

\* the issue_key setter, called by the screen that owns the panel
SetIssueKey ==
    /\ \E k \in IssueKeys : issue_key' = k
    /\ ev' = Event("issue_key", RELATED, None, NoResponse, FALSE, FALSE, <<>>, <<>>)
    /\ UNCHANGED <<issues, rows, loading_display, content_display, screen, workers, cv, fl>>

\* the issue_key setter called with None: no work item is selected any more
ClearIssueKey ==
    /\ issue_key # None
    /\ issue_key' = None
    /\ ev' = Event("issue_key", RELATED, None, NoResponse, FALSE, FALSE, <<>>, <<>>)
    /\ UNCHANGED <<issues, rows, loading_display, content_display, screen, workers, cv, fl>>

\* key `d` on a mounted row: push the ConfirmationScreen
action_unlink_work_item ==
    /\ screen = MainScreen
    /\ \E i \in DOMAIN rows[RELATED] :
         screen' = [ kind |-> "ConfirmationScreen", arg |-> rows[RELATED][i].link_id ]
    /\ ev' = Event("action_unlink_work_item", RELATED, None, NoResponse, FALSE, FALSE, <<>>, <<>>)
    /\ UNCHANGED <<issues, rows, loading_display, content_display, issue_key, workers, cv, fl>>

\* line 68: `if result is True`
Confirmed_not_false(result) == result # "False"
Confirmed(result) == result = "True"

\* the worker runs delete_link up to its first await: the call of line 82
handle_delete_choice ==
    /\ screen.kind = "ConfirmationScreen"
    /\ \E result \in {"True", "False", None} :
         IF Confirmed(result)
         THEN /\ BagCardinality(workers) < MaxWorkers
              /\ workers' = Suspend(Worker("delete_link", "delete_issue_link", screen.arg,
                                           None, << "delete_issue_link" >>))
              /\ ev' = Event("handle_delete_choice", RELATED, result, NoResponse, FALSE, FALSE,
                             << Call("delete_issue_link", screen.arg) >>, <<>>)
         ELSE /\ workers' = workers
              /\ ev' = Event("handle_delete_choice", RELATED, result, NoResponse, FALSE, FALSE,
                             <<>>, <<>>)
    /\ screen' = MainScreen
    /\ UNCHANGED <<issues, rows, loading_display, content_display, issue_key, cv, fl>>

\* line 248 mounts the rows in the RelatedIssuesContainer: that container is
\* the parent of a mounted row, and a removed row has no parent
RowParent(link_id) ==
    IF \E i \in DOMAIN rows[RELATED] : rows[RELATED][i].link_id = link_id
    THEN "related-issues-container"
    ELSE None
\* `issues` is an attribute of RelatedIssuesWidget (line 110) alone
HasIssuesAttribute(node) == node = RELATED

\* line 94: the items kept by the filter
WithoutLink(v, link_id) ==
    List(SelectSeq(v.items, LAMBDA i : i.id # link_id))

DeleteFailedNotice_info(error) ==
    Notice("information", << "Failed to delete the link: ", Fmt(error) >>)
DeleteFailedNotice(error) ==
    Notice("error", << "Failed to delete the link: ", Fmt(error) >>)
DeletedNotice ==
    Notice("information", << "Link between work items deleted successfully" >>)

\* delete_link resumed with the response of delete_issue_link (lines 83-94)
delete_link ==
    \E w \in Awaiting("delete_link", "delete_issue_link") :
      /\ workers' = Resume(w)
      /\ \E response \in APIResponses :
           IF ~Succeeded(response)
           THEN /\ ev' = Event("delete_link", RELATED, w.link_id, response, FALSE,
                               FALSE, <<>>, << DeleteFailedNotice(response.error) >>)
                /\ UNCHANGED <<issues, rows, loading_display, content_display>>
           ELSE IF HasIssuesAttribute(RowParent(w.link_id))
           THEN LET r == ReactiveSet(RELATED,
                                     WithoutLink(OrEmpty(issues[RELATED]), w.link_id))
                IN  /\ Apply(RELATED, r)
                    /\ ev' = Assigned(Event("delete_link", RELATED, w.link_id, response,
                                            r.rendered, r.raised, <<>>,
                                            << DeletedNotice >>), r)
           ELSE \* self.parent.issues raises AttributeError after the notice
                /\ ev' = Event("delete_link", RELATED, w.link_id, response, FALSE,
                               TRUE, <<>>, << DeletedNotice >>)
                /\ UNCHANGED <<issues, rows, loading_display, content_display>>
      /\ UNCHANGED <<issue_key, screen, cv, fl>>

SelectNotice ==
    Notice("information", << "Select a work item before attempting to add a link." >>)

\* key `n` on the panel (lines 164-175)
action_link_work_item ==
    /\ screen = MainScreen
    /\ IF issue_key # None
       THEN /\ screen' = [ kind |-> "AddWorkItemRelationshipScreen", arg |-> issue_key ]
            /\ ev' = Event("action_link_work_item", RELATED, None, NoResponse, FALSE, FALSE, <<>>, <<>>)
       ELSE /\ screen' = screen
            /\ ev' = Event("action_link_work_item", RELATED, None, NoResponse, FALSE, FALSE, <<>>,
                           << SelectNotice >>)
    /\ UNCHANGED <<issues, rows, loading_display, content_display, issue_key, workers, cv, fl>>

\* what the data-entry screen hands to its callback: None, {} or the form's data
Payloads == {None, "{}", "data"}
Truthy(data) == data \notin {None, "{}"}

\* the worker runs link_work_items up to its first await: the call of
\* lines 179-184, with the issue key the panel holds at that moment
add_relationship ==
    /\ screen.kind = "AddWorkItemRelationshipScreen"
    /\ \E data \in Payloads :
         IF Truthy(data)
         THEN /\ BagCardinality(workers) < MaxWorkers
              /\ workers' = Suspend(Worker("link_work_items", "link_work_items", None,
                                           None, << "link_work_items" >>))
              /\ ev' = Event("add_relationship", RELATED, data, NoResponse, FALSE, FALSE,
                             << Call("link_work_items", issue_key) >>, <<>>)
         ELSE /\ workers' = workers
              /\ ev' = Event("add_relationship", RELATED, data, NoResponse, FALSE, FALSE, <<>>, <<>>)
    /\ screen' = MainScreen
    /\ UNCHANGED <<issues, rows, loading_display, content_display, issue_key, cv, fl>>

LinkFailedNotice(error) ==
    Notice("error", << "Failed to link the work items: ", Fmt(error) >>)
LinkedNotice == Notice("information", << "Work items linked successfully" >>)

\* lines 185-194: the API methods link_work_items calls once the link call
\* has answered
LinkFollowUp_retry(response) ==
    IF Succeeded(response) THEN << "get_issue" >> ELSE << "link_work_items" >>
LinkFollowUp(response) == IF Succeeded(response) THEN << "get_issue" >> ELSE <<>>

\* line 194: self.issue_key is read again for the call of get_issue
RefetchKey == issue_key

\* link_work_items resumed with the response of the link call (lines 185-194)
link_work_items ==
    \E w \in Awaiting("link_work_items", "link_work_items") :
      /\ \E response \in APIResponses :
           LET next == LinkFollowUp(response) IN
           /\ workers' =
                IF next = <<>> THEN Resume(w)
                ELSE Resume(w) (+)
                     SetToBag({Worker("link_work_items", next[1], None, RefetchKey,
                                      w.made \o next)})
           /\ ev' = Event("link_work_items", RELATED, None, response, FALSE, FALSE,
                          [ i \in DOMAIN next |-> Call(next[i], RefetchKey) ],
                          IF Succeeded(response) THEN << LinkedNotice >>
                          ELSE << LinkFailedNotice(response.error) >>)
      /\ UNCHANGED <<issues, rows, loading_display, content_display, issue_key, screen, cv, fl>>

\* the responses of get_issue(key, fields=['issuelinks']): a failure, a
\* success without result, a success without issues, or a first issue
\* whose related_issues is None or a list
GetIssueResponses ==
    { Response(FALSE, e) : e \in Errors }
    \cup { Response(TRUE, None),
           [ Response(TRUE, None) EXCEPT !.result = TRUE ] }
    \cup { [ Response(TRUE, None) EXCEPT !.result = TRUE, !.issues = TRUE,
                                         !.related_issues = v ] :
             v \in IssuesValues(RELATED) }

\* line 195
Fetched_any(response) == TRUE
Fetched(response) == response.success /\ response.result /\ response.issues

\* line 197
FetchedValue_append(response) ==
    List(issues[RELATED].items \o response.related_issues.items)
FetchedValue(response) == OrEmpty(response.related_issues)

\* lines 195-197 compare the key that was fetched with nothing: no answer is
\* set aside because the panel has moved to another work item
StaleContext_checked(w) == w.key # issue_key
StaleContext(w) == FALSE

\* link_work_items resumed with the response of get_issue (lines 195-197)
link_work_items_fetched ==
    \E w \in Awaiting("link_work_items", "get_issue") :
      /\ workers' = Resume(w)
      /\ \E response \in GetIssueResponses :
           IF Fetched(response) /\ ~StaleContext(w)
           THEN LET r == ReactiveSet(RELATED, FetchedValue(response))
                IN  /\ Apply(RELATED, r)
                    /\ ev' = Assigned(Event("link_work_items_fetched", RELATED, w.key,
                                            response, r.rendered, r.raised, <<>>, <<>>), r)
           ELSE /\ ev' = Event("link_work_items_fetched", RELATED, w.key, response,
                               FALSE, FALSE, <<>>, <<>>)
                /\ UNCHANGED <<issues, rows, loading_display, content_display>>
      /\ UNCHANGED <<issue_key, screen, cv, fl>>

(***************************************************************************)
(* ADFTextAreaWidget._convert_to_markdown.                                 *)
(* A text is the sequence of its parts; the part " " is whitespace.  A     *)
(* Python value is a record of its type and of what str() makes of it.     *)
(***************************************************************************)
Parts == {"hello", " "}
Texts == SeqsUpTo(Parts, MaxText)
PLACEHOLDER == << "_No content_" >>

PyNone == [ type |-> "NoneType", str |-> << "None" >> ]
PyStr(t) == [ type |-> "str", str |-> t ]
EmptyDict == [ type |-> "dict", str |-> << "{}" >> ]
Document == [ type |-> "dict", str |-> << "{'type':", " ", "'doc'}" >> ]
\* original_value: dict | str | None
Values == {PyNone, EmptyDict, Document} \cup { PyStr(t) : t \in Texts }

\* bool(value)
ValueTruthy_any(v) == TRUE
ValueTruthy(v) ==
    CASE v.type = "NoneType" -> FALSE
      [] v.type = "str" -> v.str # <<>>
      [] v.type = "dict" -> v # EmptyDict

\* str.strip(): whitespace removed at both ends
RECURSIVE LStrip(_)
LStrip(t) == IF t # <<>> /\ Head(t) = " " THEN LStrip(Tail(t)) ELSE t
RECURSIVE RStrip(_)
RStrip(t) ==
    IF t # <<>> /\ t[Len(t)] = " " THEN RStrip(SubSeq(t, 1, Len(t) - 1)) ELSE t
Strip(t) == RStrip(LStrip(t))

\* what the import of line 90 and the call of line 92 can do: the import
\* fails, the transform raises, or it returns a text or (against its
\* annotation) None
Outcomes ==
    { [ kind |-> "returns", value |-> PyStr(t) ] : t \in Texts }
    \cup { [ kind |-> "returns", value |-> PyNone ],
           [ kind |-> "raises", value |-> PyStr(<< "ImportError" >>) ],
           [ kind |-> "raises", value |-> PyStr(<< "ValueError" >>) ] }

\* lines 90-93, up to an exception: the exception raised, or the value returned
TryBody_nostrip(value, outcome) ==
    IF outcome.kind = "raises"
    THEN [ raised |-> outcome.value.str, returned |-> PyNone ]
    ELSE [ raised |-> <<>>, returned |-> outcome.value ]
TryBody(value, outcome) ==
    IF outcome.kind = "raises"
    THEN [ raised |-> outcome.value.str, returned |-> PyNone ]
    ELSE IF outcome.value.type # "str"
    THEN \* None has no attribute `strip`
         [ raised |-> << "AttributeError" >>, returned |-> PyNone ]
    ELSE [ raised |-> <<>>,
           returned |-> IF Strip(outcome.value.str) # <<>> THEN outcome.value
                        ELSE PyStr(PLACEHOLDER) ]

\* line 94: `except Exception` catches every exception the body raises
Catches_import_only(exception) == exception = << "ImportError" >>
Catches(exception) ==
    exception \in { << "ImportError" >>, << "ValueError" >>, << "AttributeError" >> }

\* lines 95-96
Fallback(value) == IF ValueTruthy(value) THEN PyStr(value.str) ELSE PyStr(PLACEHOLDER)

\* _convert_to_markdown(value) under one behaviour of the transform
convert_to_markdown(value, outcome) ==
    LET body == TryBody(value, outcome) IN
    IF body.raised = <<>>
    THEN [ propagated |-> <<>>, returned |-> body.returned, warnings |-> <<>> ]
    ELSE IF Catches(body.raised)
    THEN [ propagated |-> <<>>, returned |-> Fallback(value),
           warnings |-> << << "Failed to convert ADF to markdown: " >> \o body.raised >> ]
    ELSE [ propagated |-> body.raised, returned |-> PyNone, warnings |-> <<>> ]

NoConversion == [ pc |-> "idle" ]

(***************************************************************************)
(* The flag flow of the work-item details: the key binding that opens      *)
(* FlagWorkItemScreen, the screen's three ways out, and the callback that  *)
(* updates the flag.  IssueDetailsWidget and FlagWorkItemScreen are known  *)
(* through test_flagging_screen.py.                                        *)
(***************************************************************************)
FlagKeys == {"key-1", "key-2", "key-3"}
TypedNotes == {"-", "blocked", "waiting for review"}

\* the note handed to the API: None when the input was left empty
NoteOf(text) == IF text = "" THEN None ELSE text

\* add_flag: the flag is added to an issue that has none and removed otherwise
AddFlag_always(flagged) == TRUE
AddFlag(flagged) == ~flagged

\* the key binding opens the screen only for an issue that supports flagging
OpensFlagScreen_always(supports) == TRUE
OpensFlagScreen(supports) == supports

\* the details are refreshed only after an update that succeeded
Refreshes(success) == IF success THEN 1 ELSE 0

UpdateCall(key, note, add_flag) ==
    [ method |-> "update_issue_flagged_status", issue_id_or_key |-> key,
      note |-> note, add_flag |-> add_flag ]

\* the record of one step of the flow: the API calls made, the number of
\* calls of _toggle_work_item_flag and of _refresh_work_item_details, and
\* the answer of the API
FlagEvent(op, calls, toggles, refreshes, success) ==
    [ op |-> op, calls |-> calls, toggles |-> toggles, refreshes |-> refreshes,
      success |-> success ]

NoFlag == [ pc |-> "idle" ]

\* a work item is selected in the search results and shown in the details
select_work_item ==
    /\ fl.pc = "MainScreen"
    /\ \E key \in FlagKeys, supports \in BOOLEAN, flagged \in BOOLEAN :
         fl' = [fl EXCEPT !.key = key, !.supports = supports, !.flagged = flagged,
                          !.last = FlagEvent("select_work_item", <<>>, 0, 0, FALSE)]
    /\ UNCHANGED <<issues, rows, loading_display, content_display, issue_key,
                   screen, workers, ev, cv>>

\* ctrl+f on the details
action_flag_work_item ==
    /\ fl.pc = "MainScreen"
    /\ fl' = IF OpensFlagScreen(fl.supports)
             THEN [fl EXCEPT !.pc = "FlagWorkItemScreen", !.note = "",
                             !.screen_flagged = fl.flagged,
                             !.last = FlagEvent("action_flag_work_item", <<>>, 0, 0, FALSE)]
             ELSE [fl EXCEPT !.last = FlagEvent("action_flag_work_item", <<>>, 0, 0, FALSE)]
    /\ UNCHANGED <<issues, rows, loading_display, content_display, issue_key,
                   screen, workers, ev, cv>>

\* the screen's note input is edited: a text is typed, replaced or deleted
type_note ==
    /\ fl.pc = "FlagWorkItemScreen"
    /\ \E text \in (TypedNotes \cup {""}) \ {fl.note} :
         fl' = [fl EXCEPT !.note = text,
                          !.last = FlagEvent("type_note", <<>>, 0, 0, FALSE)]
    /\ UNCHANGED <<issues, rows, loading_display, content_display, issue_key,
                   screen, workers, ev, cv>>

\* escape, or the cancel button: the screen is dismissed without a result
leave_flag_screen ==
    /\ fl.pc = "FlagWorkItemScreen"
    /\ \E how \in {"escape", "cancel"} :
         fl' = [fl EXCEPT !.pc = "MainScreen", !.note = "", !.screen_flagged = FALSE,
                          !.last = FlagEvent(how, <<>>, 0, 0, FALSE)]
    /\ UNCHANGED <<issues, rows, loading_display, content_display, issue_key,
                   screen, workers, ev, cv>>

\* the save button: the screen is dismissed with the note and
\* _toggle_work_item_flag runs up to the await of the API call
save_flag ==
    /\ fl.pc = "FlagWorkItemScreen"
    /\ fl' = [fl EXCEPT !.pc = "updating", !.note = "", !.screen_flagged = FALSE,
                        !.last = FlagEvent("save",
                                           << UpdateCall(fl.key, NoteOf(fl.note),
                                                         AddFlag(fl.flagged)) >>,
                                           1, 0, FALSE)]
    /\ UNCHANGED <<issues, rows, loading_display, content_display, issue_key,
                   screen, workers, ev, cv>>

\* _toggle_work_item_flag resumed with the answer of the API; the refresh
\* reads the flag the update has set
toggle_work_item_flag ==
    /\ fl.pc = "updating"
    /\ \E success \in BOOLEAN :
         fl' = [fl EXCEPT !.pc = "MainScreen",
                          !.flagged = IF success THEN fl.last.calls[1].add_flag
                                      ELSE fl.flagged,
                          !.last = FlagEvent("toggle_work_item_flag", <<>>, 0,
                                             Refreshes(success), success)]
    /\ UNCHANGED <<issues, rows, loading_display, content_display, issue_key,
                   screen, workers, ev, cv>>

\* __init__ and compose: issues is None, nothing mounted, indicator hidden,
\* content visible, no issue key
Init ==
    /\ issues = [p \in Panels |-> NoneList]
    /\ rows = [p \in Panels |-> <<>>]
    /\ loading_display = [p \in Panels |-> FALSE]
    /\ content_display = [p \in Panels |-> TRUE]
    /\ issue_key = None
    /\ screen = MainScreen
    /\ workers = EmptyBag
    /\ ev = NoEvent
    /\ cv = NoConversion
    /\ fl = NoFlag

\* both panels, driven by assignments and the loading signals
Next ==
    \/ \E p \in Panels : SetIssues(p)
    \/ \E p \in Panels : show_loading(p)
    \/ \E p \in Panels : hide_loading(p)

Spec == Init /\ [][Next]_vars

\* the related panel with its action dispatchers and workers
NextRelated ==
    \/ SetIssues(RELATED)
    \/ show_loading(RELATED)
    \/ hide_loading(RELATED)
    \/ SetIssueKey
    \/ action_unlink_work_item
    \/ handle_delete_choice
    \/ delete_link
    \/ action_link_work_item
    \/ add_relationship
    \/ link_work_items
    \/ link_work_items_fetched

SpecRelated == Init /\ [][NextRelated]_vars

\* the link creation of the related panel, with an issue key that is set,
\* changed and cleared while screens and workers are open
NextLink ==
    \/ SetIssues(RELATED)
    \/ SetIssueKey
    \/ ClearIssueKey
    \/ action_link_work_item
    \/ add_relationship
    \/ link_work_items
    \/ link_work_items_fetched

SpecLink == Init /\ [][NextLink]_vars

\* ADFTextAreaWidget.__init__ line 59: the widget converts its original value
ADFTextAreaWidget_init ==
    /\ cv.pc = "call"
    /\ cv' = [ cv EXCEPT !.pc = "done",
                         !.out = convert_to_markdown(cv.value, cv.outcome) ]
    /\ UNCHANGED <<issues, rows, loading_display, content_display, issue_key,
                   screen, workers, ev, fl>>

\* every original value with every behaviour of the transform
InitConvert ==
    /\ issues = [p \in Panels |-> NoneList]
    /\ rows = [p \in Panels |-> <<>>]
    /\ loading_display = [p \in Panels |-> FALSE]
    /\ content_display = [p \in Panels |-> TRUE]
    /\ issue_key = None
    /\ screen = MainScreen
    /\ workers = EmptyBag
    /\ ev = NoEvent
    /\ fl = NoFlag
    /\ \E value \in Values, outcome \in Outcomes :
         cv = [ pc |-> "call", value |-> value, outcome |-> outcome,
                out |-> [ propagated |-> <<>>, returned |-> PyNone, warnings |-> <<>> ] ]

NextConvert == ADFTextAreaWidget_init

SpecConvert == InitConvert /\ [][NextConvert]_vars

\* the main screen with a work item shown in the details
InitFlag ==
    /\ issues = [p \in Panels |-> NoneList]
    /\ rows = [p \in Panels |-> <<>>]
    /\ loading_display = [p \in Panels |-> FALSE]
    /\ content_display = [p \in Panels |-> TRUE]
    /\ issue_key = None
    /\ screen = MainScreen
    /\ workers = EmptyBag
    /\ ev = NoEvent
    /\ cv = NoConversion
    /\ \E key \in FlagKeys, supports \in BOOLEAN, flagged \in BOOLEAN :
         fl = [ pc |-> "MainScreen", key |-> key, supports |-> supports,
                flagged |-> flagged, screen_flagged |-> FALSE, note |-> "",
                last |-> FlagEvent("init", <<>>, 0, 0, FALSE) ]

NextFlag ==
    \/ select_work_item
    \/ action_flag_work_item
    \/ type_note
    \/ leave_flag_screen
    \/ save_flag
    \/ toggle_work_item_flag

SpecFlag == InitFlag /\ [][NextFlag]_vars

(***************************************************************************)
(* Properties.                                                             *)
(***************************************************************************)
Loaded(p) == ~loading_display[p] /\ content_display[p]
Contains(text, part) == \E i \in DOMAIN text : text[i] = part
KeysOf(items) == [i \in DOMAIN items |-> items[i].key]
RowKeys(p) == [i \in DOMAIN rows[p] |-> rows[p][i].work_item_key]

\* C1: when delete_link is resumed with a successful response for link id L,
\* the related panel's items afterwards are the previous items without those
\* whose id is L, in their order, and the success notice is shown.
C1_UnlinkSuccessRemovesLink ==
    [][ (ev'.op = "delete_link" /\ ev'.response.success)
        => /\ issues'[RELATED].items = WithoutLink(issues[RELATED], ev'.arg).items
           /\ ev'.notes = << DeletedNotice >> ]_vars

\* C2: when delete_link is resumed with a failure whose reason is R, the
\* related panel's items value and rows are what they were, no render pass
\* runs, and exactly one notice is emitted: severity error, the panel's
\* title, a text with R in it.
C2_UnlinkFailureKeepsState ==
    [][ (ev'.op = "delete_link" /\ ~ev'.response.success
                                /\ ev'.response.error \in Errors)
        => /\ issues' = issues /\ rows' = rows
           /\ loading_display' = loading_display /\ content_display' = content_display
           /\ ~ev'.rendered /\ ~ev'.raised
           /\ Len(ev'.notes) = 1
           /\ ev'.notes[1].severity = "error"
           /\ ev'.notes[1].title = "Related Work Items"
           /\ Contains(ev'.notes[1].text, ev'.response.error) ]_vars

C2_Witness ==
    /\ ev.op = "delete_link"
    /\ ev.response = Response(FALSE, "permission denied")
    /\ Len(issues[RELATED].items) = MaxLen
    /\ \E i \in DOMAIN issues[RELATED].items : issues[RELATED].items[i].id = ev.arg

\* C3: when link_work_items is resumed with a successful get_issue response
\* that has an issue whose related items are a list, the related panel's
\* items value is that list, whatever it was before.
C3_RefetchReplacesState ==
    (ev.op = "link_work_items_fetched" /\ ev.response.success /\ ev.response.result
        /\ ev.response.issues /\ ~ev.response.related_issues.absent)
    => issues[RELATED] = ev.response.related_issues

C3_Witness ==
    /\ ev.op = "link_work_items_fetched"
    /\ ev.response.success /\ ev.response.result /\ ev.response.issues
    /\ Len(ev.response.related_issues.items) = MaxLen
    /\ ev.rendered

\* C4 as claimed: after a successful link call, when get_issue fails, has
\* no result or no issues, or the issue has no related-items field, the
\* related panel's items are the empty sequence.
C4_AbsentRefetchEmptiesState ==
    (ev.op = "link_work_items_fetched"
        /\ ~(ev.response.success /\ ev.response.result /\ ev.response.issues
             /\ ~ev.response.related_issues.absent))
    => issues[RELATED].items = <<>>

\* C4 as amended: when the fetched issue has no related-items field the
\* items value becomes the empty list; when get_issue fails, has no result
\* or no issues, nothing is assigned: items value, rows and display are
\* what they were and no render pass runs.
C4_AbsentRefetch ==
    [][ ev'.op = "link_work_items_fetched"
        => IF ev'.response.success /\ ev'.response.result /\ ev'.response.issues
           THEN ev'.response.related_issues.absent => issues'[RELATED] = List(<<>>)
           ELSE /\ issues' = issues /\ rows' = rows
                /\ loading_display' = loading_display
                /\ content_display' = content_display
                /\ ~ev'.rendered ]_vars

C4_Witness ==
    /\ ev.op = "link_work_items_fetched"
    /\ ~ev.response.success
    /\ issues[RELATED].items # <<>>

\* C5: when link_work_items is resumed with a failure of the link call, the
\* related panel's items value and rows are what they were, the worker ends
\* without calling get_issue, and the one notice emitted has severity error
\* and carries the response's error description.
C5_LinkFailureKeepsState ==
    [][ (ev'.op = "link_work_items" /\ ~ev'.response.success)
        => /\ issues' = issues /\ rows' = rows
           /\ loading_display' = loading_display /\ content_display' = content_display
           /\ ev'.calls = <<>>
           /\ BagCardinality(workers') = BagCardinality(workers) - 1
           /\ Len(ev'.notes) = 1
           /\ ev'.notes[1].severity = "error"
           /\ ev'.notes[1].title = "Related Work Items"
           /\ Contains(ev'.notes[1].text, Fmt(ev'.response.error)) ]_vars

C5_Witness ==
    /\ ev.op = "link_work_items"
    /\ ev.response = Response(FALSE, "not found")
    /\ issues[RELATED].items # <<>>

\* C6: after an assignment of S to a panel's items value, the container
\* holds Len(S) rows, the i-th row carrying the key of the i-th item of S.
C6_RowsMirrorItems ==
    ev.op = "set_issues" => RowKeys(ev.panel) = KeysOf(issues[ev.panel].items)

\* C7 as claimed: after an assignment of an empty or absent value, in either
\* panel and from any state, the container is empty and the panel is loaded.
C7_EmptyValueLoads ==
    (ev.op = "set_issues" /\ Falsy(issues[ev.panel]))
    => rows[ev.panel] = <<>> /\ Loaded(ev.panel)

\* C7 as amended: after an assignment of an empty or absent value the
\* container is empty; the panel is loaded after it in the subtasks panel,
\* and in the related panel when the value assigned differs from the
\* current one; an equal value leaves the related panel's display as it was.
C7_EmptyValueLoadsWhenWatched ==
    [][ (ev'.op = "set_issues" /\ Falsy(issues'[ev'.panel]))
        => /\ rows'[ev'.panel] = <<>>
           /\ IF ev'.panel = SUBTASKS \/ issues'[RELATED] # issues[RELATED]
              THEN ~loading_display'[ev'.panel] /\ content_display'[ev'.panel]
              ELSE /\ loading_display' = loading_display
                   /\ content_display' = content_display ]_vars

C7_Witness ==
    /\ ev.op = "set_issues" /\ ev.panel = RELATED /\ ev.arg = "equal"
    /\ Falsy(issues[RELATED])
    /\ loading_display[RELATED] /\ ~content_display[RELATED]

\* C8: each assignment to the subtasks panel's items value runs a render
\* pass, also when the value is equal to the current one; an assignment to
\* the related panel's items value runs one exactly when the value differs.
C8_RenderPassPerAssignment ==
    ev.op = "set_issues"
    => (ev.rendered <=> (ev.panel = SUBTASKS \/ ev.arg = "changed"))

C8_Witness ==
    /\ ev.op = "set_issues" /\ ev.panel = SUBTASKS /\ ev.arg = "equal"
    /\ ev.rendered
    /\ Len(rows[SUBTASKS]) = MaxLen

\* C9: a render pass of the related panel over items of which one has no
\* priority name ends without an exception, with every row mounted and, for
\* that item, neither subtitle nor style class.
C9_AbsentPriorityBuildsRow ==
    (ev.rendered /\ ev.panel = RELATED)
    => LET items == issues[RELATED].items IN
       (\E i \in DOMAIN items : items[i].priority_name = None)
       => /\ ~ev.raised
          /\ RowKeys(RELATED) = KeysOf(items)
          /\ \A i \in DOMAIN items :
               items[i].priority_name = None
               => rows[RELATED][i].border_subtitle = None
                  /\ rows[RELATED][i].class = None

\* C10: _convert_to_markdown propagates no exception and returns a str, for
\* every original value and every behaviour of the transform.
C10_ConverterReturnsString ==
    cv.pc = "done" => cv.out.propagated = <<>> /\ cv.out.returned.type = "str"

C10_Witness ==
    /\ cv.pc = "done"
    /\ cv.outcome.kind = "returns" /\ cv.outcome.value = PyNone
    /\ cv.value = Document
    /\ cv.out.returned = PyStr(Document.str)

HasNonWhitespace(t) == \E i \in DOMAIN t : t[i] # " "
WarningOf(exception) == << "Failed to convert ADF to markdown: " >> \o exception

\* C11: when the import or the transform raises, the converter logs one
\* warning that carries the exception text and returns str(value) for a
\* truthy value and the placeholder otherwise; when the transform returns a
\* text, the converter logs nothing and returns that text unchanged if it has
\* a character that is not whitespace, and the placeholder otherwise.
C11_FallbackAndBlankOutput ==
    cv.pc = "done"
    => /\ cv.outcome.kind = "raises"
          => /\ cv.out.warnings = << WarningOf(cv.outcome.value.str) >>
             /\ cv.out.returned =
                  IF cv.value \in {PyNone, EmptyDict, PyStr(<<>>)}
                  THEN PyStr(PLACEHOLDER) ELSE PyStr(cv.value.str)
       /\ (cv.outcome.kind = "returns" /\ cv.outcome.value.type = "str")
          => /\ cv.out.warnings = <<>>
             /\ cv.out.returned =
                  IF HasNonWhitespace(cv.outcome.value.str)
                  THEN cv.outcome.value ELSE PyStr(PLACEHOLDER)

C11_Witness ==
    /\ cv.pc = "done"
    /\ cv.outcome.kind = "raises" /\ cv.outcome.value.str = << "ValueError" >>
    /\ cv.value = Document
    /\ cv.out.warnings = << << "Failed to convert ADF to markdown: ", "ValueError" >> >>
    /\ cv.out.returned = PyStr(Document.str)

\* the plain inputs None, "" and "hello", and the results the claim fixes
PlainInputs == { PyNone, PyStr(<<>>), PyStr(<< "hello" >>) }
FixedResult(value) ==
    IF value = PyStr(<< "hello" >>) THEN PyStr(<< "hello" >>) ELSE PyStr(PLACEHOLDER)

\* C12 as stated: the plain inputs give their fixed results whatever the
\* transform does.
C12_PlainInputsFixed ==
    (cv.pc = "done" /\ cv.value \in PlainInputs)
    => cv.out.returned = FixedResult(cv.value)

\* C12: the converter hands plain inputs to the transform like any other
\* value; None and "" give the placeholder and "hello" gives "hello" when the
\* transform raises or hands the input back unchanged, and when the transform
\* returns another text the result is that text, or the placeholder if it
\* is blank.
C12_PlainInputsFollowTransform ==
    (cv.pc = "done" /\ cv.value \in PlainInputs)
    => /\ (cv.outcome.kind = "raises" \/ cv.outcome.value = cv.value)
          => cv.out.returned = FixedResult(cv.value)
       /\ (cv.outcome.kind = "returns" /\ cv.outcome.value.type = "str")
          => cv.out.returned =
               IF HasNonWhitespace(cv.outcome.value.str)
               THEN cv.outcome.value ELSE PyStr(PLACEHOLDER)

C12_Witness ==
    /\ cv.pc = "done"
    /\ cv.value = PyStr(<< "hello" >>)
    /\ cv.outcome.kind = "returns" /\ cv.outcome.value = PyStr(<< " ", " " >>)
    /\ cv.out.returned = PyStr(PLACEHOLDER)

\* the step ends worker w: it leaves the bag and nothing takes its place
Ended(w) == w \in BagToSet(workers) /\ workers' = workers (-) SetToBag({w})

\* C13 as stated: every dispatch, unlink or create-link, has called exactly
\* one API method when its worker ends.
C13_OneCallPerDispatch ==
    [][\A w \in BagToSet(workers) : Ended(w) => Len(w.made) = 1]_vars

\* C13: an unlink dispatch calls delete_issue_link once and nothing else; a
\* create-link dispatch calls link_work_items once, and then get_issue once
\* exactly when the link call succeeded; no call is repeated after a failure.
C13_CallsPerDispatch ==
    [][ /\ (ev'.op = "handle_delete_choice" /\ ev'.arg = "True")
           => ev'.calls = << Call("delete_issue_link", screen.arg) >>
        /\ ev'.op = "delete_link" => ev'.calls = <<>>
        /\ (ev'.op = "add_relationship" /\ ev'.arg = "data")
           => Len(ev'.calls) = 1 /\ ev'.calls[1].method = "link_work_items"
        /\ ev'.op = "link_work_items"
           => IF ev'.response.success
              THEN Len(ev'.calls) = 1 /\ ev'.calls[1].method = "get_issue"
              ELSE ev'.calls = <<>>
        /\ ev'.op = "link_work_items_fetched" => ev'.calls = <<>>
        /\ \A w \in BagToSet(workers) :
             Ended(w)
             => \/ w.made = << "delete_issue_link" >> /\ ev'.op = "delete_link"
                \/ /\ w.made = << "link_work_items" >>
                   /\ ev'.op = "link_work_items" /\ ~ev'.response.success
                \/ /\ w.made = << "link_work_items", "get_issue" >>
                   /\ ev'.op = "link_work_items_fetched"
      ]_vars

C13_Witness ==
    /\ ev.op = "link_work_items" /\ ev.response.success
    /\ ev.calls = << Call("get_issue", "A-1") >>
    /\ \E w \in BagToSet(workers) : w.made = << "link_work_items", "get_issue" >>

\* C14: delete_issue_link is called only by the callback of the row's
\* confirmation screen and only when it was handed exactly True; a False or
\* absent result calls nothing and starts no worker.  link_work_items is
\* called only by the callback of the data-entry screen and only when it was
\* handed a non-empty payload.
C14_CallsNeedConsent ==
    [][ /\ \A i \in DOMAIN ev'.calls :
             /\ ev'.calls[i].method = "delete_issue_link"
                => /\ ev'.op = "handle_delete_choice" /\ ev'.arg = "True"
                   /\ screen = [ kind |-> "ConfirmationScreen",
                                 arg |-> ev'.calls[i].arg ]
             /\ ev'.calls[i].method = "link_work_items"
                => /\ ev'.op = "add_relationship" /\ ev'.arg \notin {None, "{}"}
                   /\ screen.kind = "AddWorkItemRelationshipScreen"
        /\ (ev'.op = "handle_delete_choice" /\ ev'.arg # "True")
           => ev'.calls = <<>> /\ workers' = workers
        /\ (ev'.op = "add_relationship" /\ ev'.arg \in {None, "{}"})
           => ev'.calls = <<>> /\ workers' = workers
        /\ \A w \in BagToSet(workers') :
             (w.made = << w.awaiting >> /\ CopiesIn(w, workers') > CopiesIn(w, workers))
             => ev'.calls = << Call(w.awaiting, IF w.coro = "delete_link"
                                                THEN w.link_id ELSE issue_key) >>
      ]_vars

C14_Witness ==
    /\ ev.op = "handle_delete_choice" /\ ev.arg = "True"
    /\ ev.calls = << Call("delete_issue_link", "L1") >>
    /\ \E w \in BagToSet(workers) : w.awaiting = "link_work_items"

\* C20: link_work_items calls the link API with the issue key the panel holds
\* when the worker starts and get_issue with the key it holds when the link
\* call has answered, and it assigns what get_issue fetched whether or not
\* the panel still holds the key that was fetched.
C20_NoStaleContextGuard ==
    [][ /\ (ev'.op = "add_relationship" /\ ev'.calls # <<>>)
           => ev'.calls = << Call("link_work_items", issue_key) >>
        /\ (ev'.op = "link_work_items" /\ ev'.response.success)
           => ev'.calls = << Call("get_issue", issue_key) >>
        /\ (ev'.op = "link_work_items_fetched" /\ Fetched(ev'.response))
           => issues'[RELATED] = OrEmpty(ev'.response.related_issues)
      ]_vars

\* the panel holds the items fetched for a key it no longer shows
C20_Witness ==
    /\ ev.op = "link_work_items_fetched" /\ Fetched(ev.response)
    /\ ev.arg # issue_key
    /\ issues[RELATED] = ev.response.related_issues
    /\ issues[RELATED].items # <<>>

\* C17: a handler's run holds at most one render pass, and the pass is whole:
\* it first empties the container, then (unless the value is empty or a row
\* fails to build) mounts the rows of all items in one call on the emptied
\* container; the rows change in no other way, whichever workers are in
\* flight.
C17_RebuildClearsThenMountsOnce ==
    [][ /\ \A p \in Panels :
             rows'[p] # rows[p] => ev'.rendered /\ ev'.panel = p
        /\ ~ev'.rendered => ev'.trace = <<>>
        /\ ev'.rendered
           => LET t == ev'.trace
                  p == ev'.panel
              IN  /\ Len(t) \in {1, 2}
                  /\ t[1] = [ call |-> "remove_children", rows |-> <<>> ]
                  /\ rows'[p] = t[Len(t)].rows
                  /\ Len(t) = 2
                     => /\ t[2].call = "mount_all"
                        /\ [ i \in DOMAIN t[2].rows |-> t[2].rows[i].work_item_key ]
                             = KeysOf(issues'[p].items)
                  /\ Len(t) = 1 => (Falsy(issues'[p]) \/ ev'.raised)
      ]_vars

\* a pass run by a resumed worker, over rows mounted before, while another
\* worker is in flight
C17_Witness ==
    /\ ev.op = "link_work_items_fetched" /\ ev.rendered
    /\ Len(ev.trace) = 2 /\ Len(rows[RELATED]) = 1
    /\ \E w \in BagToSet(workers) : w.coro = "delete_link"

\* C18: between handlers, in each panel, the keys of the mounted rows are, in
\* order, the keys of the items the panel holds, and there is no row when it
\* holds none.
C18_RowsFollowState ==
    \A p \in Panels : RowKeys(p) = KeysOf(issues[p].items)

\* C19: each panel starts loaded, and after every handler each panel shows
\* exactly one of the loading indicator and the content area: show_loading
\* leaves its panel loading, hide_loading and a render pass over an empty or
\* absent value leave it loaded, and the other panel is not touched.
C19_ExactlyOneVisible ==
    /\ \A p \in Panels : ~loading_display[p] /\ content_display[p]
    /\ [][ /\ \A p \in Panels : loading_display'[p] # content_display'[p]
           /\ ev'.op = "show_loading"
              => loading_display'[ev'.panel] /\ ~content_display'[ev'.panel]
           /\ (ev'.op = "hide_loading" \/ (ev'.rendered /\ Falsy(issues'[ev'.panel])))
              => ~loading_display'[ev'.panel] /\ content_display'[ev'.panel]
           /\ \A q \in Panels \ {ev'.panel} :
                /\ loading_display'[q] = loading_display[q]
                /\ content_display'[q] = content_display[q]
         ]_vars

C19_Witness ==
    /\ ev.op = "show_loading" /\ ev.panel = SUBTASKS
    /\ loading_display[SUBTASKS] /\ ~content_display[SUBTASKS]
    /\ rows[SUBTASKS] # <<>>
    /\ Loaded(RELATED)

\* C15: the save button makes one call of update_issue_flagged_status, for
\* the key of the issue shown, with add_flag the negation of its flagged
\* status and note the text typed (None if none was typed); no other step
\* calls the API; the details are refreshed once when the call is answered
\* with success, and not at all when it fails or in any other step.
C15_SaveUpdatesFlagOnce ==
    [][ /\ fl'.last.op = "save"
           => /\ Len(fl'.last.calls) = 1
              /\ fl'.last.calls[1].method = "update_issue_flagged_status"
              /\ fl'.last.calls[1].issue_id_or_key = fl.key
              /\ fl'.last.calls[1].add_flag = (fl.flagged = FALSE)
              /\ fl'.last.calls[1].note = IF fl.note \in TypedNotes THEN fl.note ELSE None
        /\ fl'.last.op # "save" => fl'.last.calls = <<>>
        /\ fl'.last.op = "toggle_work_item_flag"
           => /\ fl.last.op = "save"
              /\ fl'.last.refreshes = IF fl'.last.success THEN 1 ELSE 0
        /\ fl'.last.op # "toggle_work_item_flag" => fl'.last.refreshes = 0
      ]_vars

\* a failed removal of the flag of key-2
C15_Witness ==
    /\ fl.last.op = "toggle_work_item_flag" /\ ~fl.last.success
    /\ fl.last.refreshes = 0
    /\ fl.key = "key-2" /\ fl.flagged

\* C16: ctrl+f opens FlagWorkItemScreen exactly when the issue shown supports
\* flagging, and otherwise leaves the main screen active; escape and the
\* cancel button close the screen without a call of _toggle_work_item_flag,
\* without an API call, and with the flagged status as it was.
C16_OpenNeedsSupportLeaveKeepsFlag ==
    [][ /\ fl'.last.op = "action_flag_work_item"
           => /\ fl'.pc = IF fl.supports THEN "FlagWorkItemScreen" ELSE "MainScreen"
              /\ fl'.pc = "FlagWorkItemScreen" => fl'.screen_flagged = fl.flagged
        /\ (fl.pc # "FlagWorkItemScreen" /\ fl'.pc = "FlagWorkItemScreen")
           => fl'.last.op = "action_flag_work_item" /\ fl.supports
        /\ fl'.last.op \in {"escape", "cancel"}
           => /\ fl.pc = "FlagWorkItemScreen" /\ fl'.pc = "MainScreen"
              /\ fl'.last.toggles = 0 /\ fl'.last.calls = <<>>
              /\ fl'.flagged = fl.flagged
      ]_vars

\* the screen of a flagged issue, left by the cancel button
C16_Witness ==
    /\ fl.last.op = "cancel" /\ fl.pc = "MainScreen"
    /\ fl.flagged /\ fl.supports

\* C21: a render pass over a value that has items leaves the loading
\* indicator and the content area of its panel as they were, so a panel that
\* is loading stays loading; the pass mounts the rows of the items, or, where
\* building a row raises, ends with the container cleared.
C21_RenderKeepsDisplay ==
    [][ (ev'.rendered /\ ~Falsy(issues'[ev'.panel]))
        => /\ loading_display'[ev'.panel] = loading_display[ev'.panel]
           /\ content_display'[ev'.panel] = content_display[ev'.panel]
           /\ IF ev'.raised THEN rows'[ev'.panel] = <<>>
              ELSE [ i \in DOMAIN rows'[ev'.panel] |-> rows'[ev'.panel][i].work_item_key ]
                     = KeysOf(issues'[ev'.panel].items)
      ]_vars

\* rows rebuilt in the related panel while it is loading
C21_Witness ==
    /\ ev.op = "set_issues" /\ ev.panel = RELATED /\ ev.rendered /\ ~ev.raised
    /\ Len(issues[RELATED].items) = MaxLen /\ Len(rows[RELATED]) = MaxLen
    /\ loading_display[RELATED] /\ ~content_display[RELATED]

\* C22: with no issue key, key `n` opens no screen, calls no API, leaves the
\* items value alone and emits the one notice that asks for a work item, at
\* the default severity; and link_work_items is never called with an absent
\* key.
C22_NoKeyNoLink ==
    [][ /\ (ev'.op = "action_link_work_item" /\ issue_key = None)
           => /\ screen' = screen /\ screen'.kind = "MainScreen"
              /\ ev'.calls = <<>> /\ workers' = workers
              /\ issues' = issues /\ rows' = rows
              /\ Len(ev'.notes) = 1
              /\ ev'.notes[1].severity # "error"
              /\ ev'.notes[1].text =
                   << "Select a work item before attempting to add a link." >>
        /\ \A i \in DOMAIN ev'.calls :
             ev'.calls[i].method = "link_work_items" => ev'.calls[i].arg # None
      ]_vars

\* C22, the part about key `n` alone
C22_NoKeyOpensNothing ==
    [][ (ev'.op = "action_link_work_item" /\ issue_key = None)
        => /\ screen' = screen /\ screen'.kind = "MainScreen"
           /\ ev'.calls = <<>> /\ workers' = workers
           /\ issues' = issues /\ rows' = rows
           /\ Len(ev'.notes) = 1
           /\ ev'.notes[1].severity # "error"
      ]_vars

====
